---- MODULE Spec2Model ----
(***************************************************************************)
(* A model of scanner.js: the QRScanner class (camera lifecycle, frame     *)
(* callbacks, Aadhaar-number extraction) and the global functions that     *)
(* open and close it.  JavaScript runs one handler at a time; an `await`   *)
(* or a setTimeout leaves a pending continuation behind.  The pending      *)
(* continuations are the bag `tasks`; each action below is one handler or  *)
(* one continuation, run to its next suspension point, together with the   *)
(* microtasks it queues (which run before any other event).                *)
(*                                                                         *)
(* The Html5Qrcode library is external.  Its start() and stop() promises   *)
(* resolve or reject as the library decides; the model keeps, per library  *)
(* object, which device it is capturing (0: none).                         *)
(*                                                                         *)
(* A text is a sequence of one-character strings.  null is 0 for object    *)
(* references and device ids, and the empty sequence for texts.            *)
(***************************************************************************)
EXTENDS Integers, Sequences, FiniteSets, Bags, TLC

VARIABLES
    qrScanner,      \* the global scanner reference (0: null)
    scanners,       \* the fields of each QRScanner object
    owner,          \* the scanner whose callbacks an Html5Qrcode object holds (0: no such object)
    capture,        \* the device an Html5Qrcode object is capturing (0: none)
    liveTimers,     \* per scanner, its setInterval timers not yet cleared
    tasks,          \* pending continuations: awaited promises and the 100 ms timeouts
    resets,         \* pending 2 s timeouts that set the status back to Scanning...
    dom,            \* the elements the code writes: modal, panels, status, select, Aadhaar input
    win,            \* window.scannedAadhaar and window.scannedQRData
    input,          \* the text handed to extractAadhaarNumber (extraction runs)
    output          \* what extractAadhaarNumber returned for it

vars == <<qrScanner, scanners, owner, capture, liveTimers,
          tasks, resets, dom, win, input, output>>

----------------------------------------------------------------------------
(* Bounds of the model *)

MaxScanners == 1     \* QRScanner objects in use at once
MaxProviders == 1    \* Html5Qrcode objects in use at once
MaxTasks == 2        \* continuations pending at once
MaxResets == 1       \* status resets pending at once
MaxTimers == 2       \* interval timers of one scanner live at once
MaxRun == 13         \* digits in the longest digit run of an extraction input

ScannerIds == 1..MaxScanners
ProviderIds == 1..MaxProviders

----------------------------------------------------------------------------
(* Texts *)

Digits == {"0", "1", "2", "3", "4", "5", "6", "7", "8", "9"}

Whitespace == {" ", "\t", "\n"}

LowerCase == <<"a", "b", "c", "d", "e", "f", "g", "h", "i", "j", "k", "l", "m",
               "n", "o", "p", "q", "r", "s", "t", "u", "v", "w", "x", "y", "z">>

UpperCase == <<"A", "B", "C", "D", "E", "F", "G", "H", "I", "J", "K", "L", "M",
               "N", "O", "P", "Q", "R", "S", "T", "U", "V", "W", "X", "Y", "Z">>

\* The canonical form the i flag compares characters in.
Canonicalize(c) ==
    IF \E k \in 1..Len(LowerCase) : LowerCase[k] = c
    THEN UpperCase[CHOOSE k \in 1..Len(LowerCase) : LowerCase[k] = c]
    ELSE c

\* One regular-expression atom against one character.
\*   [kind |-> "lit", ch |-> c]   the character c
\*   [kind |-> "d"]               \d
\*   [kind |-> "s?"]              \s?   (handled by MatchHere)
AtomMatches(atom, c, ignoreCase) ==
    IF atom.kind = "d" THEN c \in Digits
    ELSE IF ignoreCase THEN Canonicalize(c) = Canonicalize(atom.ch)
    ELSE c = atom.ch

\* The position just after a match of atoms[k..] starting at txt[i], or 0 when
\* there is none.  \s? is greedy: it takes a whitespace character when there
\* is one and gives it back when the rest then fails.  atEnd is the $ anchor.
RECURSIVE MatchHere(_, _, _, _, _, _)
MatchHere(atoms, k, txt, i, ignoreCase, atEnd) ==
    IF k > Len(atoms) THEN
        IF atEnd /\ i /= Len(txt) + 1 THEN 0 ELSE i
    ELSE IF atoms[k].kind = "s?" THEN
        LET taken == IF i <= Len(txt) /\ txt[i] \in Whitespace
                     THEN MatchHere(atoms, k + 1, txt, i + 1, ignoreCase, atEnd)
                     ELSE 0
        IN  IF taken /= 0 THEN taken
            ELSE MatchHere(atoms, k + 1, txt, i, ignoreCase, atEnd)
    ELSE IF i <= Len(txt) /\ AtomMatches(atoms[k], txt[i], ignoreCase)
         THEN MatchHere(atoms, k + 1, txt, i + 1, ignoreCase, atEnd)
         ELSE 0

Lit(str) == [k \in 1..Len(str) |-> [kind |-> "lit", ch |-> str[k]]]

DigitAtoms(n) == [k \in 1..n |-> [kind |-> "d"]]

OptSpace == <<[kind |-> "s?"]>>

\* A pattern: the atoms before the capturing group, the atoms of the group
\* (which ends every pattern here), and the flags.
Pattern(before, group, ignoreCase, atStart, atEnd) ==
    [before |-> before, group |-> group, ignoreCase |-> ignoreCase,
     atStart |-> atStart, atEnd |-> atEnd]

\* A slip: the unlabelled patterns tried before the labelled ones.
patternsBareFirst ==
    << Pattern(<<>>, DigitAtoms(4) \o OptSpace \o DigitAtoms(4) \o OptSpace \o DigitAtoms(4), FALSE, FALSE, FALSE),
       Pattern(<<>>, DigitAtoms(12), FALSE, TRUE, TRUE),
       Pattern(Lit(<<"U", "I", "D", ":">>), DigitAtoms(12), TRUE, FALSE, FALSE),
       Pattern(Lit(<<"A", "A", "D", "H", "A", "A", "R", ":">>), DigitAtoms(12), TRUE, FALSE, FALSE) >>

aadhaarPatterns ==
    << Pattern(Lit(<<"A", "A", "D", "H", "A", "A", "R", ":">>), DigitAtoms(12), TRUE, FALSE, FALSE),
       Pattern(Lit(<<"U", "I", "D", ":">>), DigitAtoms(12), TRUE, FALSE, FALSE),
       Pattern(<<>>, DigitAtoms(4) \o OptSpace \o DigitAtoms(4) \o OptSpace \o DigitAtoms(4), FALSE, FALSE, FALSE),
       Pattern(<<>>, DigitAtoms(12), FALSE, TRUE, TRUE) >>

\* String.prototype.match with a non-global pattern: the leftmost match.
\* Returns <<match[0], match[1]>>, or <<>> for null.
SubText(txt, from, to) == [k \in 1..(to - from) |-> txt[from + k - 1]]

MatchAt(txt, pat, i) ==
    LET mid == MatchHere(pat.before, 1, txt, i, pat.ignoreCase, FALSE)
        end == IF mid = 0 THEN 0
               ELSE MatchHere(pat.group, 1, txt, mid, pat.ignoreCase, pat.atEnd)
    IN  IF end = 0 THEN <<>>
        ELSE <<SubText(txt, i, end), SubText(txt, mid, end)>>

Match(txt, pat) ==
    LET starts == IF pat.atStart THEN {1} ELSE 1..(Len(txt) + 1)
        hits == {i \in starts : MatchAt(txt, pat, i) /= <<>>}
    IN  IF hits = {} THEN <<>>
        ELSE MatchAt(txt, pat, CHOOSE i \in hits : \A j \in hits : i <= j)

\* A slip: the captured text kept as it is.
keepText(txt) == txt

\* aadhaar.replace(/\D/g, '')
StripNonDigits(txt) == SelectSeq(txt, LAMBDA c : c \in Digits)

\* /^\d+$/.test(aadhaar)
AllDigits(txt) == Len(txt) >= 1 /\ \A k \in 1..Len(txt) : txt[k] \in Digits

\* The body of the loop of extractAadhaarNumber for one pattern: the cleaned
\* number, or <<>> when this pattern yields none.
TryPattern(qrText, pat) ==
    LET m == Match(qrText, pat)
    IN  IF m = <<>> THEN <<>>
        ELSE LET aadhaar == StripNonDigits(IF m[2] /= <<>> THEN m[2] ELSE m[1])
             IN  IF Len(aadhaar) = 12 /\ AllDigits(aadhaar) THEN aadhaar ELSE <<>>

RECURSIVE ExtractFrom(_, _)
ExtractFrom(qrText, k) ==
    IF k > Len(aadhaarPatterns) THEN <<>>
    ELSE LET r == TryPattern(qrText, aadhaarPatterns[k])
         IN  IF r /= <<>> THEN r ELSE ExtractFrom(qrText, k + 1)

\* A slip at the end of the loop: the digits of the text instead of null.
extractOrDigits(qrText) ==
    IF ExtractFrom(qrText, 1) /= <<>> THEN ExtractFrom(qrText, 1)
    ELSE StripNonDigits(qrText)

\* extractAadhaarNumber(qrText): the number, or <<>> for null.
extractAadhaarNumber(qrText) == ExtractFrom(qrText, 1)

----------------------------------------------------------------------------
(* The session state as one record, so that the methods compose as they do *)
(* in the code: each method maps the state before it to the state after.   *)

Cur ==
    [qrScanner |-> qrScanner, scanners |-> scanners, owner |-> owner, capture |-> capture,
     liveTimers |-> liveTimers, tasks |-> tasks, resets |-> resets, dom |-> dom,
     win |-> win]

\* The fields a QRScanner object is constructed with.  cameraStream is never
\* assigned anything but null and scanStartTime is only read by the tick
\* callback; neither is kept.  scanTimer is TRUE when the field holds a timer
\* handle.  listeners counts the change listeners initialize() registered.
\* live tells the objects that exist from the identities not in use.
NewScanner ==
    [live |-> TRUE, html5QrCode |-> 0, scanTimer |-> FALSE, scanning |-> FALSE,
     cameraId |-> 0, listeners |-> 0]

NoScanner == [NewScanner EXCEPT !.live = FALSE]

Task(kind, s, p, cam, origin) ==
    [kind |-> kind, s |-> s, p |-> p, cam |-> cam, origin |-> origin]

AddTask(st, t) == [st EXCEPT !.tasks = @ (+) SetToBag({t})]

RemoveTask(st, t) == [st EXCEPT !.tasks = @ (-) SetToBag({t})]

\* A scanner the global no longer names, that is not scanning, has no timer
\* running, no continuation pending and no library object capturing, can do
\* nothing any more: the change listeners it left behind return at once.
Inert(st, s) ==
    /\ st.scanners[s].live
    /\ st.qrScanner /= s
    /\ ~st.scanners[s].scanning
    /\ st.liveTimers[s] = 0
    /\ \A t \in BagToSet(st.tasks) : t.s /= s
    /\ \A p \in ProviderIds : st.owner[p] = s => st.capture[p] = 0

\* A library object no scanner refers to, that is not capturing and has no
\* promise pending, is garbage.
Unused(st, p) ==
    /\ st.owner[p] /= 0
    /\ st.scanners[st.owner[p]].html5QrCode /= p
    /\ st.capture[p] = 0
    /\ \A t \in BagToSet(st.tasks) : t.p /= p

\* st with the identities of inert scanners and of unused library objects
\* given back.
Collected(st) ==
    [st EXCEPT !.scanners = [s \in ScannerIds |->
                                IF Inert(st, s) THEN NoScanner ELSE st.scanners[s]],
               !.owner = [p \in ProviderIds |->
                                IF Unused(st, p) THEN 0 ELSE st.owner[p]]]

\* The step to state st; a handler that would leave more than MaxTasks
\* continuations pending is outside the model's bounds.
Becomes(st) ==
    \E after \in {st} :
        /\ BagCardinality(after.tasks) <= MaxTasks
        /\ after.resets <= MaxResets
        /\ qrScanner' = after.qrScanner
        /\ scanners' = Collected(after).scanners
        /\ owner' = Collected(after).owner
        /\ capture' = after.capture
        /\ liveTimers' = after.liveTimers
        /\ tasks' = after.tasks
        /\ resets' = after.resets
        /\ dom' = after.dom
        /\ win' = after.win
        /\ UNCHANGED <<input, output>>

----------------------------------------------------------------------------
(* What the decoder may hand to the frame callbacks *)

TextAadhaar == <<"A", "A", "D", "H", "A", "A", "R", ":",
                 "1", "2", "3", "4", "5", "6", "7", "8", "9", "0", "1", "2">>

TextGrouped == <<"9", "8", "7", "6", " ", "5", "4", "3", "2", " ", "1", "0", "9", "8">>

TextOther == <<"H", "E", "L", "L", "O">>

FrameTexts == {TextAadhaar, TextGrouped, TextOther}

\* extractAadhaarNumber on the frame texts, computed once.
Extracted == [qrText \in FrameTexts |-> extractAadhaarNumber(qrText)]

\* The messages of the error callback, as sequences of words.
MsgNotFound == <<"QR code parse error, error =", "NotFoundException", "No MultiFormat Readers">>

MsgNotReadable == <<"NotReadableError", "Could not start video source">>

MsgOther == <<"ChecksumException">>

FrameErrors == {MsgNotFound, MsgNotReadable, MsgOther}

----------------------------------------------------------------------------
(* QRScanner methods *)

updateStatus(st, message, type) ==
    [st EXCEPT !.dom.status = [msg |-> message, type |-> type]]

\* dom.error is the title the error panel shows ("": the panel is hidden);
\* the message under it follows from the title and is not kept.
showError(st, title, message) ==
    updateStatus([st EXCEPT !.dom.error = title], title, "error")

hideError(st) == [st EXCEPT !.dom.error = ""]

\* A slip: the decoded text stored where the number belongs.
showScanResultRaw(st, aadhaarNumber, rawData) ==
    updateStatus([st EXCEPT !.dom.result = aadhaarNumber,
                            !.win = [scannedAadhaar |-> rawData,
                                     scannedQRData |-> rawData]],
                 "QR Code found!", "success")

\* dom.result is the number the result panel shows (<<>>: the panel is hidden).
showScanResult(st, aadhaarNumber, rawData) ==
    updateStatus([st EXCEPT !.dom.result = aadhaarNumber,
                            !.win = [scannedAadhaar |-> aadhaarNumber,
                                     scannedQRData |-> rawData]],
                 "QR Code found!", "success")

\* setInterval returns a new timer; the handle of an earlier one that was not
\* cleared is overwritten and that timer keeps running.
startScanTimer(st, s) ==
    [st EXCEPT !.scanners[s].scanTimer = TRUE, !.liveTimers[s] = @ + 1]

stopScanTimer(st, s) ==
    IF st.scanners[s].scanTimer
    THEN [st EXCEPT !.scanners[s].scanTimer = FALSE, !.liveTimers[s] = @ - 1]
    ELSE st

\* stopCamera up to its await: the library's stop() is called and its promise
\* awaited.  cam is the camera a waiting switchCamera goes on to (0: the
\* caller does not wait), origin the caller.
stopCamera(st, s, cam, origin) ==
    IF st.scanners[s].html5QrCode /= 0 /\ st.scanners[s].scanning
    THEN AddTask(st, Task("stop", s, st.scanners[s].html5QrCode, cam, origin))
    ELSE st

\* startCamera up to its await.  With html5QrCode null the call throws a
\* TypeError inside the try block.  caller is kept with the pending promise.
startCamera(st, s, cameraId, caller) ==
    IF cameraId = 0 THEN st
    ELSE LET st1 == updateStatus(st, "Starting camera...", "loading")
         IN  IF st.scanners[s].html5QrCode = 0
             THEN showError(st1, "Camera Start Failed", "TypeError")
             ELSE AddTask(st1, Task("start", s, st.scanners[s].html5QrCode,
                                    cameraId, caller))

\* switchCamera after `await this.stopCamera()`.
switchCameraResume(st, s, newCameraId) ==
    startCamera([st EXCEPT !.scanners[s].cameraId = newCameraId], s, newCameraId,
                "switch")

\* switchCamera up to its first suspension.  When stopCamera does not call the
\* library it returns at once and the rest follows as a microtask.
switchCamera(st, s, newCameraId) ==
    IF newCameraId = 0 \/ ~st.scanners[s].scanning THEN st
    ELSE IF st.scanners[s].html5QrCode /= 0
         THEN stopCamera(st, s, newCameraId, "switch")
         ELSE switchCameraResume(st, s, newCameraId)

cleanup(st, s) ==
    LET st1 == stopScanTimer(stopCamera(st, s, 0, "cleanup"), s)
    IN  [st1 EXCEPT !.scanners[s].html5QrCode = 0, !.scanners[s].scanning = FALSE]

\* errorMessage.includes(word), a message being a sequence of words.
Includes(message, word) == \E k \in 1..Len(message) : message[k] = word

\* A slip: the error panel for the per-frame errors too.
onScanErrorShown(st, s, errorMessage) ==
    IF ~st.scanners[s].scanning THEN st
    ELSE IF \/ Includes(errorMessage, "NotFoundException")
            \/ Includes(errorMessage, "NotReadableError")
         THEN showError(st, "Scan Error", "No QR code detected")
         ELSE st

onScanError(st, s, errorMessage) ==
    IF ~st.scanners[s].scanning THEN st
    ELSE IF \/ Includes(errorMessage, "NotFoundException")
            \/ Includes(errorMessage, "NotReadableError")
         THEN updateStatus(st, "No QR code detected", "warning")
         ELSE st

\* A slip: the result is shown and the camera left running.
onScanSuccessKeepsCamera(st, s, decodedText) ==
    LET aadhaarNumber == Extracted[decodedText]
    IN  IF aadhaarNumber /= <<>>
        THEN showScanResult(stopScanTimer(st, s), aadhaarNumber, decodedText)
        ELSE [showError(st, "Invalid QR Code", "not a valid Aadhaar number")
                EXCEPT !.resets = @ + 1]

onScanSuccess(st, s, decodedText) ==
    LET aadhaarNumber == Extracted[decodedText]
    IN  IF aadhaarNumber /= <<>>
        THEN showScanResult(stopScanTimer(stopCamera(st, s, 0, "found"), s),
                            aadhaarNumber, decodedText)
        ELSE [showError(st, "Invalid QR Code", "not a valid Aadhaar number")
                EXCEPT !.resets = @ + 1]

\* A device as Html5Qrcode.getCameras() reports it.
Device(id, label) == [id |-> id, label |-> label]

FrontCamera == Device(1, <<"F", "r", "o", "n", "t">>)

BackCamera == Device(2, <<"B", "a", "c", "k", " ", "c", "a", "m">>)

\* The lists getCameras() may resolve with.
CameraLists == {<<>>, <<FrontCamera, BackCamera>>}

\* d.label.toLowerCase().includes('back')
IsBack(d) ==
    Match(d.label, Pattern(<<>>, Lit(<<"b", "a", "c", "k">>), TRUE, FALSE, FALSE)) /= <<>>

\* The camera loadCameras selects: the first back camera, else the first.
DefaultCamera(devices) ==
    LET backs == {k \in 1..Len(devices) : IsBack(devices[k])}
    IN  IF backs = {} THEN devices[1].id
        ELSE devices[CHOOSE k \in backs : \A j \in backs : k <= j].id

\* loadCameras after `await Html5Qrcode.getCameras()`; found is FALSE when the
\* promise rejected.
loadCamerasResume(st, s, devices, found) ==
    IF ~found
    THEN showError(st, "Camera Error", "No camera detected")
    ELSE LET st1 == [st EXCEPT !.dom.options = {}, !.dom.selected = 0]
         IN  IF Len(devices) > 0
             THEN LET id == DefaultCamera(devices)
                      st2 == [st1 EXCEPT
                                !.dom.options = {devices[k].id : k \in 1..Len(devices)},
                                !.scanners[s].cameraId = id,
                                !.dom.selected = id]
                  IN  startCamera(st2, s, id, "loadCameras")
             ELSE showError(st1, "Camera Error", "No camera detected")

\* initialize up to its await: a new Html5Qrcode object, then loadCameras up
\* to its await.
initialize(st, s) ==
    LET p == CHOOSE q \in ProviderIds :
                 st.owner[q] = 0 /\ \A r \in ProviderIds : st.owner[r] = 0 => q <= r
    IN  AddTask([st EXCEPT !.owner[p] = s, !.scanners[s].html5QrCode = p],
                Task("getCameras", s, 0, 0, "initialize"))

\* initialize after `await this.loadCameras()`.
initializeResume(st, s) ==
    updateStatus([st EXCEPT !.scanners[s].listeners = @ + 1], "Ready to scan", "info")

----------------------------------------------------------------------------
(* Global functions *)

openQRScanner(st) ==
    LET st1 == [st EXCEPT !.dom.modal = TRUE]
        new == CHOOSE s \in ScannerIds :
                   ~st.scanners[s].live /\ \A r \in ScannerIds : ~st.scanners[r].live => s <= r
        st2 == IF st1.qrScanner = 0
               THEN [st1 EXCEPT !.qrScanner = new, !.scanners[new] = NewScanner]
               ELSE st1
    IN  AddTask(st2, Task("initTimer", 0, 0, 0, "openQRScanner"))

\* A slip: the scanner is cleaned up and the global keeps naming it.
closeKeepsScanner(st) ==
    LET st1 == IF st.qrScanner /= 0 THEN cleanup(st, st.qrScanner) ELSE st
    IN  [st1 EXCEPT !.dom.modal = FALSE, !.dom.result = <<>>, !.dom.error = "",
                    !.dom.status = [msg |-> "Ready to scan", type |-> "reset"]]

closeQRScanner(st) ==
    LET st1 == IF st.qrScanner /= 0
               THEN [cleanup(st, st.qrScanner) EXCEPT !.qrScanner = 0]
               ELSE st
    IN  [st1 EXCEPT !.dom.modal = FALSE, !.dom.result = <<>>, !.dom.error = "",
                    !.dom.status = [msg |-> "Ready to scan", type |-> "reset"]]

retryCamera(st) ==
    IF st.qrScanner /= 0
    THEN AddTask(hideError(st), Task("getCameras", st.qrScanner, 0, 0, "retryCamera"))
    ELSE st

\* useScannedData.  showAlert and fetchPatientData belong to the page, not to
\* this file, and are left out.
useScannedData(st) ==
    IF st.win.scannedAadhaar /= <<>>
    THEN closeQRScanner([st EXCEPT !.dom.aadhaarInput = st.win.scannedAadhaar])
    ELSE st

\* The change handler of qrImageUpload up to reader.readAsDataURL(file).
uploadChange(st) ==
    AddTask(IF st.qrScanner /= 0
            THEN updateStatus(st, "Processing image...", "loading")
            ELSE st,
            Task("upload", 0, 0, 0, "qrImageUpload"))

\* jsQR found no code in the image.
NoCode == <<>>

\* What jsQR may return for an uploaded image: the text of a code, or none.
UploadCodes == FrameTexts \cup {NoCode}

\* A slip: an uploaded result stops the camera as a scanned one does.
uploadLoadedStops(st, code, throws) ==
    IF st.qrScanner = 0 THEN st
    ELSE IF throws THEN showError(st, "Processing Error", "error.message")
    ELSE IF code = NoCode
         THEN showError(st, "No QR Code Found", "No QR code detected in the uploaded image.")
    ELSE IF Extracted[code] /= <<>>
         THEN onScanSuccess(st, st.qrScanner, code)
         ELSE showError(st, "Invalid QR Code", "not a valid Aadhaar QR code")

\* The upload handler once jsQR has returned a code and
\* extractAadhaarNumber(code.data) has returned aadhaarNumber.
uploadDecoded(st, aadhaarNumber, data) ==
    IF aadhaarNumber /= <<>>
    THEN showScanResult([st EXCEPT !.win = [scannedAadhaar |-> aadhaarNumber,
                                            scannedQRData |-> data]],
                        aadhaarNumber, data)
    ELSE showError(st, "Invalid QR Code", "not a valid Aadhaar QR code")

\* img.onload of the upload handler: the image is drawn and decoded.  throws
\* is TRUE when drawing or decoding throws.  With the global null every path
\* ends in a TypeError (the catch block's own call included) and changes
\* nothing.
uploadLoaded(st, code, throws) ==
    IF st.qrScanner = 0 THEN st
    ELSE IF throws THEN showError(st, "Processing Error", "error.message")
    ELSE IF code = NoCode
         THEN showError(st, "No QR Code Found", "No QR code detected in the uploaded image.")
    ELSE uploadDecoded(st, Extracted[code], code)

demoAadhaar == <<"1", "2", "3", "4", "5", "6", "7", "8", "9", "0", "1", "2">>

demoData == <<"A", "A", "D", "H", "A", "A", "R", ":">> \o demoAadhaar \o
    <<"|", "T", "Y", "P", "E", ":", "M", "E", "D", "I", "C", "A", "L", "|", "H", "O", "S", "P", "I", "T", "A", "L", ":", "A", "P", "O", "L", "L", "O">>

useDemoQR(st) ==
    IF st.qrScanner /= 0 THEN showScanResult(st, demoAadhaar, demoData) ELSE st

\* The change listeners of cameraSelect, run one after the other: listener n
\* of scanner s first, then the rest.
RECURSIVE RunChangeListeners(_, _, _, _)
RunChangeListeners(st, s, n, value) ==
    IF s > MaxScanners THEN st
    ELSE IF n > st.scanners[s].listeners
         THEN RunChangeListeners(st, s + 1, 1, value)
         ELSE RunChangeListeners(switchCamera(st, s, value), s, n + 1, value)

----------------------------------------------------------------------------
(* The state after the page has loaded *)

InitSession ==
    /\ qrScanner = 0
    /\ scanners = [s \in ScannerIds |-> NoScanner]
    /\ owner = [p \in ProviderIds |-> 0]
    /\ capture = [p \in ProviderIds |-> 0]
    /\ liveTimers = [s \in ScannerIds |-> 0]
    /\ tasks = EmptyBag
    /\ resets = 0
    /\ dom = [modal |-> FALSE, result |-> <<>>, error |-> "",
              status |-> [msg |-> "", type |-> ""],
              options |-> {}, selected |-> 0, aadhaarInput |-> <<>>]
    /\ win = [scannedAadhaar |-> <<>>, scannedQRData |-> <<>>]

Init ==
    /\ InitSession
    /\ input = <<>>
    /\ output = <<>>

Pending(kind) == {t \in BagToSet(tasks) : t.kind = kind}

\* A frame callback of library object p comes late when a switchCamera or a
\* cleanup has called stop() on p, or the scanner has been closed.
Late(p) ==
    \/ \E t \in Pending("stop") : t.p = p /\ t.origin \in {"switch", "cleanup"}
    \/ qrScanner /= owner[p]

----------------------------------------------------------------------------
(* User events.  The modal covers the page, so the scanner is opened only   *)
(* while the modal is hidden and its controls are used only while it shows; *)
(* Escape closes at any time.                                               *)

OpenQRScanner ==
    /\ ~dom.modal
    /\ qrScanner = 0 => \E s \in ScannerIds : ~scanners[s].live
    /\ Becomes(openQRScanner(Cur))

CloseQRScanner ==
    \E st \in {closeQRScanner(Cur)} : Becomes(st)

RetryCamera ==
    /\ dom.modal
    /\ dom.error /= ""
    /\ Becomes(retryCamera(Cur))

CameraSelectChange ==
    \E value \in dom.options :
        /\ dom.modal
        /\ value /= dom.selected
        /\ Becomes(RunChangeListeners([Cur EXCEPT !.dom.selected = value], 1, 1, value))

UseScannedData ==
    /\ dom.modal
    /\ \E st \in {useScannedData(Cur)} : Becomes(st)

UseDemoQR ==
    /\ dom.modal
    /\ Becomes(useDemoQR(Cur))

\* A file is chosen in qrImageUpload.
UploadChange ==
    /\ dom.modal
    /\ Becomes(uploadChange(Cur))

\* The chosen file has been read and the image made of it has loaded.  (The
\* reader's onload hands the data to the image and writes nothing.)
UploadLoaded ==
    \E t \in Pending("upload") : \E throws \in BOOLEAN :
    \E code \in (IF throws THEN {NoCode} ELSE UploadCodes) :
        LET st == RemoveTask(Cur, t)
        IN  Becomes(uploadLoaded(st, code, throws))

----------------------------------------------------------------------------
(* Timeouts *)

\* The 100 ms timeout of openQRScanner: `await qrScanner.initialize()` on the
\* scanner the global names by then; a TypeError when it names none.
InitTimerFires ==
    \E t \in Pending("initTimer") :
        LET st == RemoveTask(Cur, t)
        IN  IF qrScanner = 0
            THEN Becomes(st)
            ELSE /\ \E p \in ProviderIds : owner[p] = 0
                 /\ Becomes(initialize(st, qrScanner))

\* The 2 s timeout of onScanSuccess.
StatusResetFires ==
    /\ resets > 0
    /\ Becomes(updateStatus([Cur EXCEPT !.resets = @ - 1], "Scanning...", "scanning"))

----------------------------------------------------------------------------
(* Promises of the library settling *)

GetCamerasSettles ==
    \E t \in Pending("getCameras") : \E found \in BOOLEAN :
    \E devices \in (IF found THEN CameraLists ELSE {<<>>}) :
        LET st1 == loadCamerasResume(RemoveTask(Cur, t), t.s, devices, found)
            st2 == IF t.origin = "initialize" THEN initializeResume(st1, t.s) ELSE st1
        IN  Becomes(st2)

\* A slip: the flag and the timer set whether or not start() resolved.
startCameraResumeEarly(st, s, ok) ==
    LET st1 == startScanTimer([st EXCEPT !.scanners[s].scanning = TRUE], s)
    IN  IF ok THEN updateStatus(st1, "Scanning...", "scanning")
        ELSE showError(st1, "Camera Start Failed", "start rejected")

\* startCamera after `await this.html5QrCode.start(...)`.
startCameraResume(st, s, ok) ==
    IF ok
    THEN updateStatus(startScanTimer([st EXCEPT !.scanners[s].scanning = TRUE], s),
                      "Scanning...", "scanning")
    ELSE showError(st, "Camera Start Failed", "start rejected")

\* The start() promise t settles: resolved, the library object captures.
StartSettlesOf(t, ok) ==
    /\ t \in Pending("start")
    /\ ok => liveTimers[t.s] < MaxTimers
    /\ LET st1 == RemoveTask(Cur, t)
           st2 == IF ok THEN [st1 EXCEPT !.capture[t.p] = t.cam] ELSE st1
       IN  Becomes(startCameraResume(st2, t.s, ok))

StartSettles == \E t \in Pending("start") : \E ok \in BOOLEAN : StartSettlesOf(t, ok)

\* stopCamera after `await this.html5QrCode.stop()`.
stopCameraResume(st, s, ok) ==
    IF ok
    THEN updateStatus(stopScanTimer([st EXCEPT !.scanners[s].scanning = FALSE], s),
                      "Camera stopped", "info")
    ELSE st

\* The stop() promise t settles: resolved, the library object captures no
\* more.  A switchCamera waiting for it goes on either way, stopCamera having
\* caught the rejection.
StopSettlesOf(t, ok) ==
    /\ t \in Pending("stop")
    /\ LET st1 == RemoveTask(Cur, t)
           st2 == IF ok THEN [st1 EXCEPT !.capture[t.p] = 0] ELSE st1
           st3 == stopCameraResume(st2, t.s, ok)
           st4 == IF t.origin = "switch" THEN switchCameraResume(st3, t.s, t.cam)
                  ELSE st3
       IN  Becomes(st4)

StopSettles == \E t \in Pending("stop") : \E ok \in BOOLEAN : StopSettlesOf(t, ok)

----------------------------------------------------------------------------
(* Frame callbacks, delivered while the library object is capturing *)

FrameDecodedOf(p, decodedText) ==
    /\ capture[p] /= 0
    /\ Becomes(onScanSuccess(Cur, owner[p], decodedText))

FrameDecoded ==
    \E p \in ProviderIds : \E decodedText \in FrameTexts : FrameDecodedOf(p, decodedText)

FrameErrorOf(p, errorMessage) ==
    /\ capture[p] /= 0
    /\ Becomes(onScanError(Cur, owner[p], errorMessage))

FrameError ==
    \E p \in ProviderIds : \E errorMessage \in FrameErrors : FrameErrorOf(p, errorMessage)

----------------------------------------------------------------------------

Next ==
    \/ OpenQRScanner
    \/ CloseQRScanner
    \/ RetryCamera
    \/ CameraSelectChange
    \/ InitTimerFires
    \/ StatusResetFires
    \/ GetCamerasSettles
    \/ StartSettles
    \/ StopSettles
    \/ FrameDecoded
    \/ FrameError

Spec == Init /\ [][Next]_vars

\* The page around the scanner: sessions are opened and closed, results are
\* found by frames, by uploaded images and by the demo button, and are used.
\* Switching cameras, which neither stores a result nor touches an upload, is
\* left to Spec.
NextPage ==
    \/ OpenQRScanner
    \/ CloseQRScanner
    \/ RetryCamera
    \/ UseScannedData
    \/ UseDemoQR
    \/ UploadChange
    \/ UploadLoaded
    \/ InitTimerFires
    \/ StatusResetFires
    \/ GetCamerasSettles
    \/ StartSettles
    \/ StopSettles
    \/ FrameDecoded
    \/ FrameError

SpecPage == Init /\ [][NextPage]_vars

----------------------------------------------------------------------------
(* Extraction on its own: extractAadhaarNumber applied to texts put together *)
(* from a lead, a label, a body of digits and a tail.                        *)

DigitChars == <<"0", "1", "2", "3", "4", "5", "6", "7", "8", "9">>

\* n digits counting up from the digit `from`.
DigitRun(n, from) == [k \in 1..n |-> DigitChars[((from + k - 1) % 10) + 1]]

Leads == {<<>>, <<"#">>, DigitRun(12, 5) \o <<"|">>,
          <<"U", "I", "D", ":">> \o DigitRun(12, 7) \o <<"|">>,
          <<"A", "A", "D", "H", "A", "A", "R", ":">> \o DigitRun(13, 2) \o <<"|">>}

Labels == {<<>>,
           <<"A", "A", "D", "H", "A", "A", "R", ":">>,
           <<"a", "a", "d", "h", "a", "a", "r", ":">>,
           <<"U", "I", "D", ":">>,
           <<"u", "i", "d", ":">>,
           <<"U", "i", "d", " ">>}

Bodies ==
    {DigitRun(n, 1) : n \in 0..MaxRun}
    \cup {DigitRun(4, 1) \o <<" ">> \o DigitRun(4, 5) \o <<" ">> \o DigitRun(4, 9),
          DigitRun(4, 1) \o <<" ">> \o DigitRun(8, 5),
          DigitRun(4, 1) \o <<" ", " ">> \o DigitRun(8, 5),
          DigitRun(4, 1) \o <<"-">> \o DigitRun(4, 5) \o <<"-">> \o DigitRun(4, 9)}

Tails == {<<>>, <<"|", "T", "Y", "P", "E">>, <<"|">> \o DigitRun(12, 3)}

Inputs ==
    {lead \o label \o body \o tail :
        lead \in Leads, label \in Labels, body \in Bodies, tail \in Tails}

\* The value of output before extractAadhaarNumber has returned.
NotYet == <<"?">>

InitExtract ==
    /\ InitSession
    /\ input \in Inputs
    /\ output = NotYet

Extract ==
    /\ output = NotYet
    /\ output' = extractAadhaarNumber(input)
    /\ UNCHANGED <<qrScanner, scanners, owner, capture, liveTimers, tasks, resets,
                   dom, win, input>>

NextExtract == Extract

SpecExtract == InitExtract /\ [][NextExtract]_vars

DigitCount(txt) == Len(StripNonDigits(txt))

----------------------------------------------------------------------------
(* Claims about extraction *)

\* C10 as stated: a text whose digits, all non-digits stripped, number fewer
\* or more than 12 yields nothing.
C10_NotTwelveYieldsNothing ==
    (output /= NotYet /\ DigitCount(input) /= 12) => output = <<>>

\* C10, amended: a text with fewer than 12 digits in all yields nothing.  (A
\* text with more than 12 digits yields a number whenever a pattern matches
\* inside it.)
C10_FewerThanTwelveYieldsNothing ==
    (output /= NotYet /\ DigitCount(input) < 12) => output = <<>>

\* C10's case: extraction has run on a text with some digits, fewer than 12.
C10_Witness ==
    /\ output = <<>>
    /\ DigitCount(input) > 0
    /\ DigitCount(input) < 12

\* The number of digits in a row from position j of txt on.
RunLength(txt, j) ==
    CHOOSE n \in 0..Len(txt) :
        /\ \A k \in 0..(n - 1) : j + k <= Len(txt) /\ txt[j + k] \in Digits
        /\ (j + n > Len(txt) \/ txt[j + n] \notin Digits)

AadhaarLabel == <<"A", "A", "D", "H", "A", "A", "R", ":">>

UidLabel == <<"U", "I", "D", ":">>

\* The positions just after an occurrence of label in txt, in any letter case.
AfterLabel(txt, label) ==
    {j \in 1..(Len(txt) + 1) :
        /\ j > Len(label)
        /\ \A k \in 1..Len(label) :
              Canonicalize(txt[j - Len(label) + k - 1]) = label[k]}

\* The numbers of the fields of txt that are label followed by exactly 12 digits.
Fields(txt, label) ==
    {SubText(txt, j, j + 12) : j \in {i \in AfterLabel(txt, label) : RunLength(txt, i) = 12}}

\* Some label of txt is followed by more than 12 digits.
Overlong(txt) ==
    \E label \in {AadhaarLabel, UidLabel} :
        \E j \in AfterLabel(txt, label) : RunLength(txt, j) > 12

\* C11: a text with a label (AADHAAR: or UID:, any letter case) followed by
\* exactly 12 digits yields the 12 digits of such a field, whatever else the
\* text holds.
C11_LabelledNumberReturned ==
    (output /= NotYet /\ Fields(input, AadhaarLabel) \cup Fields(input, UidLabel) /= {})
        => output \in Fields(input, AadhaarLabel) \cup Fields(input, UidLabel)

\* txt without its spaces.
Concatenation(txt) == SelectSeq(txt, LAMBDA c : c /= " ")

\* txt is three groups of 4 digits, each two separated by one space or by
\* nothing.
IsGrouped(txt) ==
    /\ Len(Concatenation(txt)) = 12
    /\ \A k \in 1..12 : Concatenation(txt)[k] \in Digits
    /\ \E s1, s2 \in {<<>>, <<" ">>} :
          txt = SubText(Concatenation(txt), 1, 5) \o s1
                \o SubText(Concatenation(txt), 5, 9) \o s2
                \o SubText(Concatenation(txt), 9, 13)

\* C12: a text that is three groups of 4 digits, separated by single spaces
\* or run together (so every text of exactly 12 digits too), yields the 12
\* digits of the groups in their order.
C12_GroupedYieldsConcatenation ==
    (output /= NotYet /\ IsGrouped(input)) => output = Concatenation(input)

\* C12's case: extraction has run on three groups separated by spaces.
C12_Witness ==
    /\ output /= NotYet
    /\ IsGrouped(input)
    /\ Len(input) = 14
    /\ output = Concatenation(input)

\* txt has 12 digits in a row that follow no label.
HasUnlabelledRun(txt) ==
    \E j \in 1..Len(txt) :
        /\ RunLength(txt, j) = 12
        /\ (j = 1 \/ txt[j - 1] \notin Digits)
        /\ j \notin AfterLabel(txt, AadhaarLabel) \cup AfterLabel(txt, UidLabel)

\* C13: the labelled patterns come first: of a text whose labels are followed
\* by at most 12 digits, the result is the number of an AADHAAR: field when
\* there is one, else the number of a UID: field when there is one, whatever
\* unlabelled 12 digits stand before or after.
C13_LabelledFirst ==
    (output /= NotYet /\ ~Overlong(input)) =>
        /\ Fields(input, AadhaarLabel) /= {} => output \in Fields(input, AadhaarLabel)
        /\ (Fields(input, AadhaarLabel) = {} /\ Fields(input, UidLabel) /= {})
              => output \in Fields(input, UidLabel)

\* C13's case: extraction has run on a text with a UID: field, then an
\* AADHAAR: field with another number, then 12 unlabelled digits.
C13_Witness ==
    /\ output /= NotYet
    /\ Fields(input, UidLabel) /= {}
    /\ Fields(input, AadhaarLabel) /= {}
    /\ Fields(input, UidLabel) \cap Fields(input, AadhaarLabel) = {}
    /\ HasUnlabelledRun(input)
    /\ output \in Fields(input, AadhaarLabel)

----------------------------------------------------------------------------
(* Claims about the session *)

\* The scanner s has been closed: the object is still there and the global
\* no longer names it.
Closed(s) == scanners[s].live /\ qrScanner /= s

\* No continuation of scanner s is pending.
Settled(s) == \A t \in BagToSet(tasks) : t.s /= s

\* The scanner the global names is scanning.
SessionScanning == qrScanner /= 0 /\ scanners[qrScanner].scanning

\* C1: once a scanner has been closed and its pending steps have completed,
\* no library object of it is capturing and none of its interval timers runs.
C1_ReleasedAfterClose ==
    \A s \in ScannerIds :
        (Closed(s) /\ Settled(s)) =>
            /\ liveTimers[s] = 0
            /\ \A p \in ProviderIds : owner[p] = s => capture[p] = 0

\* C2: a frame callback delivered after a switchCamera or a close was begun
\* for its device changes nothing: no scanner field, no pending work, nothing
\* shown and nothing recorded.
C2_LateFramesIgnored ==
    [][\A p \in ProviderIds :
          (/\ Late(p)
           /\ \/ \E decodedText \in FrameTexts : FrameDecodedOf(p, decodedText)
              \/ \E errorMessage \in FrameErrors : FrameErrorOf(p, errorMessage))
          => UNCHANGED <<scanners, tasks, resets, dom, win>>]_vars

\* The session of the scanner `was` is idle in st: the global names no
\* scanner, the scanner's flag is false, its timer handle and library
\* reference are null, and the modal and its panels are hidden.
IdleIn(st, was) ==
    /\ st.qrScanner = 0
    /\ was /= 0 => /\ ~st.scanners[was].scanning
                   /\ ~st.scanners[was].scanTimer
                   /\ st.scanners[was].html5QrCode = 0
    /\ ~st.dom.modal
    /\ st.dom.result = <<>>
    /\ st.dom.error = ""
    /\ st.dom.status.msg = "Ready to scan"

\* C3: from every state, closeQRScanner leaves the session idle, a second
\* closeQRScanner right after it leaves the state as the first left it, and
\* so does a second cleanup of the same scanner.
C3_CloseIdempotent ==
    LET once == closeQRScanner(Cur)
        twice == closeQRScanner(once)
    IN  /\ IdleIn(once, qrScanner)
        /\ IdleIn(twice, qrScanner)
        /\ twice = once
        /\ qrScanner /= 0 =>
              cleanup(cleanup(Cur, qrScanner), qrScanner) = cleanup(Cur, qrScanner)

\* C3's case: closeQRScanner has run on a scanning session (its stop() is
\* still pending), from where it can run again.
C3_Witness ==
    /\ qrScanner = 0
    /\ dom.status = [msg |-> "Ready to scan", type |-> "reset"]
    /\ \E t \in Pending("stop") : t.origin = "cleanup"

\* C4: a 'no symbol in this frame' error delivered to a scanning scanner
\* leaves its flag, camera and timer as they were, asks for no stop and
\* raises no error; this in every reachable state, so after any number of
\* misses.
C4_MissKeepsScanning ==
    \A p \in ProviderIds :
        (capture[p] /= 0 /\ scanners[owner[p]].scanning) =>
            LET after == onScanError(Cur, owner[p], MsgNotFound)
            IN  /\ after.scanners = scanners
                /\ after.capture = capture
                /\ after.liveTimers = liveTimers
                /\ after.tasks = tasks
                /\ after.qrScanner = qrScanner
                /\ after.dom.error = dom.error
                /\ after.dom.status.type /= "error"

\* C4's case: a miss has been reported and the scanner is scanning.
C4_Witness ==
    /\ SessionScanning
    /\ dom.status.msg = "No QR code detected"
    /\ \E p \in ProviderIds : owner[p] = qrScanner /\ capture[p] /= 0

C6_InvalidFrameIsTransient ==
    [][\A p \in ProviderIds :
          (/\ owner[p] = qrScanner
           /\ SessionScanning
           /\ FrameDecodedOf(p, TextOther))
          => /\ scanners' = scanners
             /\ capture' = capture
             /\ dom'.error = dom.error]_vars

\* C7: of the errors reported to the scanning session, the transient one
\* leaves it scanning and the fatal one (device unreadable) raises the error
\* panel and the error status.
C7_FatalErrorSurfaced ==
    [][\A p \in ProviderIds :
          (owner[p] = qrScanner /\ SessionScanning) =>
             /\ FrameErrorOf(p, MsgNotFound) => scanners' = scanners
             /\ FrameErrorOf(p, MsgNotReadable) =>
                   (dom'.error /= "" /\ dom'.status.type = "error")]_vars

\* C8: a scanner's flag goes from false to true only in the step where its
\* start() promise resolves, which also starts the timer and sets the status;
\* when the promise rejects, the error panel shows Camera Start Failed, and
\* the flag, the timers and the captures are as before.
C8_ScanningOnlyAfterAcquisition ==
    [][/\ \A s \in ScannerIds :
             (~scanners[s].scanning /\ scanners'[s].scanning) =>
                 \E t \in Pending("start") :
                     /\ t.s = s
                     /\ StartSettlesOf(t, TRUE)
                     /\ capture'[t.p] = t.cam
                     /\ scanners'[s].scanTimer
                     /\ liveTimers'[s] = liveTimers[s] + 1
                     /\ dom'.status.msg = "Scanning..."
       /\ \A t \in Pending("start") :
             StartSettlesOf(t, FALSE) =>
                 /\ dom'.error = "Camera Start Failed"
                 /\ dom'.status.type = "error"
                 /\ scanners'[t.s].scanning = scanners[t.s].scanning
                 /\ liveTimers' = liveTimers
                 /\ capture' = capture]_vars

\* C8's case: start() was rejected: the panel shows it and the session is
\* neither scanning nor timed nor capturing.
C8_Witness ==
    /\ qrScanner /= 0
    /\ dom.error = "Camera Start Failed"
    /\ ~scanners[qrScanner].scanning
    /\ liveTimers[qrScanner] = 0
    /\ \A p \in ProviderIds : capture[p] = 0

\* C9: when the stop() or the start() of a switchCamera is rejected, the
\* scanner is still scanning on the camera it had, with no error raised.
C9_FailedSwitchKeepsState ==
    [][/\ \A t \in Pending("stop") :
             (t.origin = "switch" /\ StopSettlesOf(t, FALSE)) =>
                 /\ scanners'[t.s].cameraId = scanners[t.s].cameraId
                 /\ scanners'[t.s].scanning
                 /\ dom'.error = dom.error
       /\ \A t \in Pending("start") :
             (t.origin = "switch" /\ StartSettlesOf(t, FALSE)) =>
                 /\ scanners'[t.s].scanning
                 /\ dom'.error = dom.error]_vars

\* C16: the status line reads Scanning... only while a scanner's flag is
\* true, the delayed reset of an invalid frame included.
C16_ScanningStatusMeansScanning ==
    dom.status.msg = "Scanning..." =>
        \E s \in ScannerIds : scanners[s].live /\ scanners[s].scanning

\* C17: a scanner has at most one interval timer running (so startScanTimer
\* has overwritten no handle of a running timer), and none while its flag is
\* false.
C17_OneTimerWhileScanning ==
    \A s \in ScannerIds :
        /\ liveTimers[s] <= 1
        /\ ~scanners[s].scanning => liveTimers[s] = 0

\* C18: when the session is scanning and nothing of it is pending, its
\* library object is capturing the device cameraId records.
C18_CaptureIsCameraId ==
    (/\ SessionScanning
     /\ Settled(qrScanner)
     /\ scanners[qrScanner].html5QrCode /= 0) =>
        capture[scanners[qrScanner].html5QrCode] = scanners[qrScanner].cameraId

\* C19: once a result is found and the stop() it asked for is pending, a
\* further decoded frame of that library object changes neither the recorded
\* number and text nor the pending work (it asks for no second stop).
C19_FoundResultKept ==
    [][\A p \in ProviderIds : \A decodedText \in FrameTexts :
          (/\ dom.result /= <<>>
           /\ \E t \in Pending("stop") : t.origin = "found" /\ t.p = p
           /\ FrameDecodedOf(p, decodedText))
          => (win' = win /\ tasks' = tasks)]_vars

----------------------------------------------------------------------------
(* Claims about the page *)

IsIdentityNumber(v) == Len(v) = 12 /\ \A k \in 1..Len(v) : v[k] \in Digits

\* C14: what window.scannedAadhaar holds, once anything was stored in it, is
\* 12 characters, all digits; so is every number extractAadhaarNumber returns
\* for a text a decoder hands over.
C14_StoredIsIdentityNumber ==
    /\ win.scannedAadhaar /= <<>> => IsIdentityNumber(win.scannedAadhaar)
    /\ \A qrText \in FrameTexts :
          Extracted[qrText] /= <<>> => IsIdentityNumber(Extracted[qrText])

\* C14's case: a number has been stored that was extracted from a text with
\* spaces in it.
C14_Witness ==
    /\ win.scannedQRData = TextGrouped
    /\ win.scannedAadhaar = Concatenation(TextGrouped)

\* The part of st an upload has no business with: the scanners' fields (flag,
\* camera, timer handle), the captures, the running timers and the pending
\* work other than uploads.
SessionPart(st) ==
    [qrScanner |-> st.qrScanner, scanners |-> st.scanners, capture |-> st.capture,
     liveTimers |-> st.liveTimers, resets |-> st.resets,
     pending |-> [t \in {u \in BagToSet(st.tasks) : u.kind /= "upload"} |->
                     CopiesIn(t, st.tasks)]]

\* C15: choosing a file, and the image loading with any outcome (a number
\* found, an invalid text, no code, an exception), leave the scanning flag,
\* the camera, the capture and the timer of every scanner as they were.
C15_UploadLeavesSession ==
    /\ SessionPart(uploadChange(Cur)) = SessionPart(Cur)
    /\ \A throws \in BOOLEAN : \A code \in UploadCodes :
          SessionPart(uploadLoaded(Cur, code, throws)) = SessionPart(Cur)

\* C15's case: an uploaded image without a code has been reported while the
\* session goes on scanning, capturing and timing.
C15_Witness ==
    /\ SessionScanning
    /\ dom.error = "No QR Code Found"
    /\ liveTimers[qrScanner] = 1
    /\ capture[scanners[qrScanner].html5QrCode] = scanners[qrScanner].cameraId

\* C20: useScannedData fills the Aadhaar input only when a result was found
\* since the scanner was opened.  Only closeQRScanner hides the result panel,
\* so a result found since then is still shown: a number delivered while the
\* panel is hidden comes from a session that is over.
C20_UsedOnlyWhenFound ==
    [][(UseScannedData /\ dom'.aadhaarInput /= dom.aadhaarInput)
          => dom.result /= <<>>]_vars

====
